---- MODULE Spec2Model ----
(***************************************************************************)
(* A model of the service-account provisioning script (src/trial.py):      *)
(* the retrying command runner retryable_command, the terms-of-service     *)
(* loop, the asyncio.gather fan-out of enable_api, and the pipeline main.  *)
(*                                                                         *)
(* Strings are sequences of tokens: stdout and stderr of a command, and    *)
(* the operator's answers.  A substring test ("marker" in err_str) is a    *)
(* search of the sequence; str.lower maps each token; bytes are truthy     *)
(* when the sequence is not empty.                                         *)
(*                                                                         *)
(* asyncio runs one coroutine at a time and switches only at an await, so  *)
(* each action is the code between two suspension points (the completion   *)
(* of a subprocess, of a sleep, of a blocking input() or requests.post).   *)
(*                                                                         *)
(* The variant that uses the client libraries (src/new.py) is modelled at  *)
(* the end: its main, with enable_apis' loop, one action per blocking      *)
(* request.                                                                *)
(***************************************************************************)
EXTENDS Integers, Sequences, FiniteSets, TLC

VARIABLES
    pc,              \* where main's coroutine stands
    call,            \* the retryable_command frame of each coroutine
    proc,            \* "running" | "exited" (sys.exit, an uncaught exception, or main's return)
    exit_status,     \* the exit status of the process once proc = "exited"
    steps,           \* the pipeline steps begun and ended, in order
    tos_accepted,    \* verify_tos_accepted's local
    tos_answer,      \* verify_tos_accepted's local answer: << >>, or << the input >>
    tos_cycles,      \* how many times verify_tos_accepted's loop body has been entered
    auth_answer,     \* authorize_service_account's local answer, likewise
    authorized,      \* what authorize_service_account returned (main drops it)
    response,        \* what download_service_account_key returned (main drops it)
    project_exists,  \* the cloud: the project was created
    enabled,         \* the cloud: APIs whose enable command exited with status zero
    sa_exists,       \* the cloud: the service account was created
    key_file,        \* the local disk: KEY_FILE exists
    staged,          \* KEY_FILE has been written by "keys create"
    issued,          \* the commands handed to the shell so far
    scopes,          \* the configured SCOPES
    service_account_id,  \* authorize_service_account's local
    authorize_url,   \* authorize_service_account's local: the delegation URL
    delete_calls,    \* how many times delete_key was entered
    sdk              \* new.py: enable_apis' loop, its return value and main's

vars == <<pc, call, proc, exit_status, steps, tos_accepted, tos_answer, tos_cycles,
          auth_answer, authorized,
          response, project_exists, enabled, sa_exists, key_file, staged,
          issued, delete_calls, scopes, service_account_id, authorize_url, sdk>>

\* The configuration and the locals of the authorization step.
url == <<scopes, service_account_id, authorize_url>>

env == <<project_exists, enabled, sa_exists, key_file, staged>>

\* new.py before enable_apis: no API requested, nothing returned.
SdkIdle == [ attempted |-> << >>, returned |-> "none", result |-> "none" ]

----------------------------------------------------------------------------
(* Configuration (module-level constants of trial.py)                      *)

APIS ==
    << "admin.googleapis.com", "contacts.googleapis.com", "gmail.googleapis.com",
       "drive.googleapis.com", "driveactivity.googleapis.com" >>

\* APIS[1:]: the APIs enable_apis fans out over.
RemainingApis == Tail(APIS)

\* retryable_command's defaults.
DefaultMaxNumRetries == 3
DefaultRetryDelay == 5

\* A local that no attempt has assigned yet.
Unset == -1

\* The coroutines: 0 is main, i in 1..4 is enable_api(RemainingApis[i]).
MainTask == 0
ApiTasks == 1 .. Len(RemainingApis)
Tasks == {MainTask} \cup ApiTasks

----------------------------------------------------------------------------
(* Bounds of the runner's harness                                          *)

\* max_num_retries ranges over 0 .. MaxAttempts in SpecRunner.
MaxAttempts == 3

\* SpecUrl draws lists of at most MaxScopes scopes of at most MaxScopeLen
\* characters each.
MaxScopes == 2
MaxScopeLen == 1

\* tos_cycles counts the cycles of the terms-of-service loop up to MaxTosCycles
\* and stays there: the loop itself goes on.
MaxTosCycles == 3

----------------------------------------------------------------------------
(* Strings                                                                 *)

\* "marker" in err_str
Contains(s, marker) == \E i \in 1 .. Len(s) : s[i] = marker

LowerChar(ch) ==
    CASE ch = "N" -> "n"
      [] ch = "O" -> "o"
      [] ch = "Y" -> "y"
      [] OTHER -> ch

\* str.lower()
Lower(s) == [i \in 1 .. Len(s) |-> LowerChar(s[i])]

\* What the operator may type at an input() prompt.
Answers == { <<>>, <<"n">>, <<"N">>, <<"y">>, <<"n", "o">>, <<"N", "O">> }

Indices(s) == [i \in 1 .. Len(s) |-> i]

\* str.split(sep): the parts between the occurrences of sep
Split(s, sep) ==
    LET at == SelectSeq(Indices(s), LAMBDA i : s[i] = sep)
        n == Len(at)
    IN  [k \in 1 .. n + 1 |->
            SubSeq(s, IF k = 1 THEN 1 ELSE at[k - 1] + 1,
                      IF k = n + 1 THEN Len(s) ELSE at[k] - 1)]

\* str.rstrip()
RECURSIVE RStrip(_)
RStrip(s) ==
    IF Len(s) > 0 /\ s[Len(s)] = "\n" THEN RStrip(SubSeq(s, 1, Len(s) - 1)) ELSE s

----------------------------------------------------------------------------
(* The delegation URL                                                      *)

\* SCOPES: each scope is a sequence of characters, a run of letters and dots
\* (always safe characters) being written as one token.
SCOPES ==
    << << "https", ":", "/", "/", "www.googleapis.com", "/", "auth", "/", "drive" >>,
       << "https", ":", "/", "/", "www.googleapis.com", "/", "auth", "/", "drive.activity.readonly" >>,
       << "https", ":", "/", "/", "www.googleapis.com", "/", "auth", "/", "admin.directory.user" >> >>

Letters ==
    { "a", "b", "c", "d", "e", "f", "g", "h", "i", "j", "k", "l", "m", "n", "o", "p", "q", "r", "s", "t", "u", "v", "w", "x", "y", "z",
      "A", "B", "C", "D", "E", "F", "G", "H", "I", "J", "K", "L", "M", "N", "O", "P", "Q", "R", "S", "T", "U", "V", "W", "X", "Y", "Z" }

Digits == { "0", "1", "2", "3", "4", "5", "6", "7", "8", "9" }

\* The characters urllib.parse.quote never escapes.
AlwaysSafe == Letters \cup Digits \cup { "_", ".", "-", "~" }

\* ord(ch), for the characters of this model.
Ord(ch) ==
    CASE ch = "a" -> 97
      [] ch = "b" -> 98
      [] ch = "c" -> 99
      [] ch = "d" -> 100
      [] ch = "e" -> 101
      [] ch = "f" -> 102
      [] ch = "g" -> 103
      [] ch = "h" -> 104
      [] ch = "i" -> 105
      [] ch = "j" -> 106
      [] ch = "k" -> 107
      [] ch = "l" -> 108
      [] ch = "m" -> 109
      [] ch = "n" -> 110
      [] ch = "o" -> 111
      [] ch = "p" -> 112
      [] ch = "q" -> 113
      [] ch = "r" -> 114
      [] ch = "s" -> 115
      [] ch = "t" -> 116
      [] ch = "u" -> 117
      [] ch = "v" -> 118
      [] ch = "w" -> 119
      [] ch = "x" -> 120
      [] ch = "y" -> 121
      [] ch = "z" -> 122
      [] ch = "A" -> 65
      [] ch = "B" -> 66
      [] ch = "C" -> 67
      [] ch = "D" -> 68
      [] ch = "E" -> 69
      [] ch = "F" -> 70
      [] ch = "G" -> 71
      [] ch = "H" -> 72
      [] ch = "I" -> 73
      [] ch = "J" -> 74
      [] ch = "K" -> 75
      [] ch = "L" -> 76
      [] ch = "M" -> 77
      [] ch = "N" -> 78
      [] ch = "O" -> 79
      [] ch = "P" -> 80
      [] ch = "Q" -> 81
      [] ch = "R" -> 82
      [] ch = "S" -> 83
      [] ch = "T" -> 84
      [] ch = "U" -> 85
      [] ch = "V" -> 86
      [] ch = "W" -> 87
      [] ch = "X" -> 88
      [] ch = "Y" -> 89
      [] ch = "Z" -> 90
      [] ch = "0" -> 48
      [] ch = "1" -> 49
      [] ch = "2" -> 50
      [] ch = "3" -> 51
      [] ch = "4" -> 52
      [] ch = "5" -> 53
      [] ch = "6" -> 54
      [] ch = "7" -> 55
      [] ch = "8" -> 56
      [] ch = "9" -> 57
      [] ch = "_" -> 95
      [] ch = "." -> 46
      [] ch = "-" -> 45
      [] ch = "~" -> 126
      [] ch = ":" -> 58
      [] ch = "/" -> 47
      [] ch = "," -> 44
      [] ch = "&" -> 38
      [] ch = "=" -> 61
      [] ch = "%" -> 37
      [] ch = "?" -> 63
      [] ch = "+" -> 43
      [] ch = " " -> 32
      [] ch = "@" -> 64
      [] ch = "#" -> 35
      [] OTHER -> 0

\* A token that is no single character is a run of always safe characters.
IsSafeRun(token) == Ord(token) = 0

HexDigits == << "0", "1", "2", "3", "4", "5", "6", "7", "8", "9", "A", "B", "C", "D", "E", "F" >>

\* "%XX" of one character
PercentEncoded(ch) ==
    << "%", HexDigits[(Ord(ch) \div 16) + 1], HexDigits[(Ord(ch) % 16) + 1] >>

QuoteSafeDefault == { "/" }

\* quote(..., safe=""): no character but the always safe ones is left as it is.
QuoteSafe == { }

RECURSIVE Quote(_, _)
\* urllib.parse.quote(s, safe)
Quote(s, safe) ==
    IF s = << >> THEN << >>
    ELSE (IF Head(s) \in AlwaysSafe \cup safe \/ IsSafeRun(Head(s))
          THEN << Head(s) >>
          ELSE PercentEncoded(Head(s)))
         \o Quote(Tail(s), safe)

RECURSIVE Join(_, _)
\* sep.join(list)
Join(list, sep) ==
    IF list = << >> THEN << >>
    ELSE IF Len(list) = 1 THEN list[1]
    ELSE list[1] \o << sep >> \o Join(Tail(list), sep)

\* DWD_URL_FORMAT.format(client_id, client_scopes)
DwdUrlFormat(client_id, client_scopes) ==
    << "https://admin.google.com/ac/owl/domainwidedelegation", "?",
       "overwriteClientId", "=", "true", "&", "clientIdToAdd", "=" >>
    \o client_id \o << "&", "clientScopeToAdd", "=" >> \o client_scopes

\* scopes = quote(",".join(SCOPES), safe=""); the URL is the format of the id
\* and the scopes.
AuthorizeUrl(id, scope_list) ==
    DwdUrlFormat(id, Quote(Join(scope_list, ","), QuoteSafe))

----------------------------------------------------------------------------
(* retryable_command                                                       *)

NoCommand == << "", "" >>

IdleCall ==
    [ command |-> NoCommand, max_num_retries |-> 0, retry_delay |-> 0,
      suppress_errors |-> FALSE, require_output |-> FALSE,
      num_tries |-> 0, stdout |-> << >>, stderr |-> << >>, return_code |-> Unset,
      pc |-> "idle", result |-> << >>, execs |-> 0, sleeps |-> 0, slept |-> 0 ]

\* The frame of a call whose body has not run yet (a coroutine object).
Frame(command, max_num_retries, retry_delay, suppress_errors, require_output) ==
    [ IdleCall EXCEPT !.command = command, !.max_num_retries = max_num_retries,
                      !.retry_delay = retry_delay, !.suppress_errors = suppress_errors,
                      !.require_output = require_output, !.pc = "created" ]

LoopTestAfterBody(c) ==
    IF c.num_tries <= c.max_num_retries \/ c.execs = 0
    THEN [c EXCEPT !.pc = "running", !.execs = @ + 1]
    ELSE [c EXCEPT !.pc = "ret_none", !.result = << >>]

\* while num_tries <= max_num_retries: create_subprocess_shell(command); falling
\* out of the loop returns None.
LoopTest(c) ==
    IF c.num_tries <= c.max_num_retries
    THEN [c EXCEPT !.pc = "running", !.execs = @ + 1]
    ELSE [c EXCEPT !.pc = "ret_none", !.result = << >>]

\* num_tries = 1, then the loop, up to the first await.
Enter(c) == LoopTest([c EXCEPT !.num_tries = 1])

Invoke(command, max_num_retries, retry_delay, suppress_errors, require_output) ==
    Enter(Frame(command, max_num_retries, retry_delay, suppress_errors, require_output))

SuccessIgnoringOutput(c) == c.return_code = 0

\* if return_code == 0: if not require_output or (require_output and stdout)
Success(c) ==
    /\ c.return_code = 0
    /\ (~c.require_output \/ (c.require_output /\ Len(c.stdout) > 0))

AttemptsRemainOffByOne(c) == c.num_tries + 1 < c.max_num_retries

\* if num_tries < max_num_retries
AttemptsRemain(c) == c.num_tries < c.max_num_retries

Triple(c) == << c.stdout, c.stderr, c.return_code >>

AfterAttemptZeroNeverFatal(c, o) ==
    LET d == [c EXCEPT !.stdout = o.stdout, !.stderr = o.stderr,
                       !.return_code = o.return_code]
    IN  IF Success(d)
        THEN [d EXCEPT !.pc = "ret_success", !.result = Triple(d)]
        ELSE IF AttemptsRemain(d)
        THEN [d EXCEPT !.num_tries = @ + 1, !.pc = "sleeping",
                       !.sleeps = @ + 1, !.slept = @ + d.retry_delay]
        ELSE IF d.suppress_errors \/ d.return_code = 0
        THEN [d EXCEPT !.pc = "ret_suppressed", !.result = Triple(d)]
        ELSE [d EXCEPT !.pc = "sys_exit"]

\* The code after process.communicate() returned outcome o, up to the next await,
\* return or sys.exit.
AfterAttempt(c, o) ==
    LET d == [c EXCEPT !.stdout = o.stdout, !.stderr = o.stderr,
                       !.return_code = o.return_code]
    IN  IF Success(d)
        THEN [d EXCEPT !.pc = "ret_success", !.result = Triple(d)]
        ELSE IF AttemptsRemain(d)
        THEN [d EXCEPT !.num_tries = @ + 1, !.pc = "sleeping",
                       !.sleeps = @ + 1, !.slept = @ + d.retry_delay]
        ELSE IF d.suppress_errors
        THEN [d EXCEPT !.pc = "ret_suppressed", !.result = Triple(d)]
        ELSE [d EXCEPT !.pc = "sys_exit"]

Returned(c) == c.pc \in {"ret_success", "ret_suppressed", "ret_none"}

----------------------------------------------------------------------------
(* The shell: what a command may answer                                    *)

CmdProjectsCreate == << "gcloud projects create", "" >>
CmdServicesEnable(api) == << "gcloud services enable", api >>
CmdServiceAccountsCreate == << "gcloud iam service-accounts create", "" >>
CmdListUniqueId == << "gcloud iam service-accounts list", "value(uniqueId)" >>
CmdListEmail == << "gcloud iam service-accounts list", "value(email)" >>
CmdKeysCreate == << "gcloud iam service-accounts keys create", "KEY_FILE" >>
CmdAuthList == << "gcloud auth list", "value(account)" >>
CmdShred == << "shred -u", "KEY_FILE" >>
\* The command of the runner's harness.
CmdAny == << "cmd", "" >>

TosMarker == "UREQ_TOS_NOT_ACCEPTED"

\* What gcloud says of a project or a service account that exists already.
AlreadyExists == "already exists"

\* The exit statuses a failing command is given here.
FailCodes == {1, 2}

Outcome(stdout, stderr, return_code) ==
    [stdout |-> stdout, stderr |-> stderr, return_code |-> return_code]

Failures(stderrs) == { Outcome(<< >>, e, rc) : e \in stderrs, rc \in FailCodes }

\* The outcomes of one execution of a command, given the state of the disk.
Outcomes(command) ==
    CASE command = CmdServicesEnable(APIS[1]) ->
            { Outcome(<< >>, << >>, 0) }
            \cup Failures({ << TosMarker, "universal" >>, << TosMarker, "appsadmin" >>,
                            << TosMarker >>, << "PERMISSION_DENIED" >> })
      [] command \in { CmdListUniqueId, CmdListEmail } ->
            { Outcome(<< >>, << >>, 0), Outcome(<< "id", "\n" >>, << >>, 0) }
            \cup Failures({ << "ERROR" >> })
      [] command = CmdAuthList ->
            { Outcome(<< >>, << >>, 0),
              Outcome(<< "admin", "@", "example.com", "\n" >>, << >>, 0),
              Outcome(<< "admin", "\n" >>, << >>, 0) }
            \cup Failures({ << "ERROR" >> })
      [] command = CmdShred ->
            \* shred -u exits with zero only when it has removed the file
            (IF key_file THEN { Outcome(<< >>, << >>, 0) } ELSE { })
            \cup Failures({ << "ERROR" >> })
      [] command = CmdAny ->
            { Outcome(out, err, rc) : out \in { << >>, << "out" >> },
                                      err \in { << >>, << "err" >> },
                                      rc \in {0} \cup FailCodes }
      [] command \in { CmdProjectsCreate, CmdServiceAccountsCreate } ->
            \* a create command also fails when what it creates is there already
            { Outcome(<< >>, << >>, 0) }
            \cup Failures({ << "ERROR" >>, << "ERROR", AlreadyExists >> })
      [] OTHER ->
            { Outcome(<< >>, << >>, 0) } \cup Failures({ << "ERROR" >> })

\* What a command that exited with status zero has done.
Effect(command, o) ==
    LET ok == o.return_code = 0 IN
    /\ project_exists' = (project_exists \/ (ok /\ command = CmdProjectsCreate))
    /\ enabled' = IF ok /\ command[1] = "gcloud services enable"
                  THEN enabled \cup { command[2] } ELSE enabled
    /\ sa_exists' = (sa_exists \/ (ok /\ command = CmdServiceAccountsCreate))
    /\ key_file' = IF ok /\ command = CmdKeysCreate THEN TRUE
                   ELSE IF ok /\ command = CmdShred THEN FALSE
                   ELSE key_file
    /\ staged' = (staged \/ (ok /\ command = CmdKeysCreate))

----------------------------------------------------------------------------
(* The process                                                             *)

SysExitOne(code) ==
    /\ proc' = "exited"
    /\ exit_status' = 1

\* sys.exit(code): the process ends with that status.
SysExit(code) ==
    /\ proc' = "exited"
    /\ exit_status' = code % 256

\* An exception nothing catches: the interpreter prints it and exits with 1.
Uncaught ==
    /\ proc' = "exited"
    /\ exit_status' = 1

\* A frame's commands reach the shell when the frame is running.
Spawned(c) == IF c.pc = "running" THEN { c.command } ELSE { }

NoneReadyUnordered == TRUE

\* The event loop runs every ready task before it handles a completion: no
\* subprocess or sleep completes while a task of the gather has not started.
NoneReady == \A u \in Tasks : call[u].pc # "created"

\* await process.communicate() returns; the code runs to the next await.
CommandCompletes(t) ==
    /\ proc = "running"
    /\ call[t].pc = "running"
    /\ NoneReady
    /\ \E o \in Outcomes(call[t].command) :
          LET c == AfterAttempt(call[t], o) IN
          /\ call' = [call EXCEPT ![t] = c]
          /\ Effect(call[t].command, o)
          /\ IF c.pc = "sys_exit"
             THEN SysExit(c.return_code)
             ELSE UNCHANGED <<proc, exit_status>>
    /\ UNCHANGED <<url, sdk>>
    /\ UNCHANGED <<tos_cycles, pc, steps, tos_accepted, tos_answer, auth_answer, authorized,
                   response, issued, delete_calls>>

\* await asyncio.sleep(retry_delay) returns; back to the loop test.
SleepDone(t) ==
    /\ proc = "running"
    /\ call[t].pc = "sleeping"
    /\ NoneReady
    /\ call' = [call EXCEPT ![t] = LoopTest(call[t])]
    /\ issued' = issued \cup Spawned(call'[t])
    /\ UNCHANGED <<url, sdk>>
    /\ UNCHANGED <<tos_cycles, pc, proc, exit_status, steps, tos_accepted, tos_answer,
                   auth_answer, authorized, response, env, delete_calls>>

----------------------------------------------------------------------------
(* The runner alone: one call with any arguments                           *)

RetryDelays == {0, DefaultRetryDelay}

InitRunner ==
    /\ pc = "harness"
    /\ \E m \in -1 .. MaxAttempts, d \in RetryDelays, s \in BOOLEAN, r \in BOOLEAN :
          call = [t \in Tasks |-> IF t = MainTask THEN Invoke(CmdAny, m, d, s, r)
                                  ELSE IdleCall]
    /\ issued = Spawned(call[MainTask])
    /\ proc = "running"
    /\ exit_status = 0
    /\ steps = << >>
    /\ tos_accepted = FALSE
    /\ tos_answer = << >>
    /\ tos_cycles = 0
    /\ auth_answer = << >>
    /\ authorized = "none"
    /\ response = "none"
    /\ project_exists = FALSE
    /\ enabled = { }
    /\ sa_exists = FALSE
    /\ key_file = FALSE
    /\ staged = FALSE
    /\ delete_calls = 0
    /\ scopes = SCOPES
    /\ service_account_id = << >>
    /\ authorize_url = << >>
    /\ sdk = SdkIdle

NextRunner ==
    \/ CommandCompletes(MainTask)
    \/ SleepDone(MainTask)

SpecRunner == InitRunner /\ [][NextRunner]_vars

\* The same call when the subprocess of every attempt terminates and the event
\* loop's timer ends every sleep.
SpecRunnerFair ==
    /\ SpecRunner
    /\ WF_vars(CommandCompletes(MainTask))
    /\ WF_vars(SleepDone(MainTask))

----------------------------------------------------------------------------
(* The calls of the pipeline's steps                                       *)

create_project_call ==
    Invoke(CmdProjectsCreate, DefaultMaxNumRetries, DefaultRetryDelay, FALSE, FALSE)

probe_call_default_retries ==
    Invoke(CmdServicesEnable(APIS[1]), DefaultMaxNumRetries, DefaultRetryDelay, TRUE, FALSE)

\* verify_tos_accepted: max_num_retries=1, suppress_errors=True
probe_call ==
    Invoke(CmdServicesEnable(APIS[1]), 1, DefaultRetryDelay, TRUE, FALSE)

enable_api_suppressed(api) ==
    Frame(CmdServicesEnable(api), DefaultMaxNumRetries, DefaultRetryDelay, TRUE, FALSE)

\* enable_api(api): the coroutine object map() makes; gather starts it.
enable_api(api) ==
    Frame(CmdServicesEnable(api), DefaultMaxNumRetries, DefaultRetryDelay, FALSE, FALSE)

create_service_account_call ==
    Invoke(CmdServiceAccountsCreate, DefaultMaxNumRetries, DefaultRetryDelay, FALSE, FALSE)

get_service_account_id_call ==
    Invoke(CmdListUniqueId, DefaultMaxNumRetries, DefaultRetryDelay, FALSE, TRUE)

get_service_account_email_call ==
    Invoke(CmdListEmail, DefaultMaxNumRetries, DefaultRetryDelay, FALSE, TRUE)

create_key_call ==
    Invoke(CmdKeysCreate, DefaultMaxNumRetries, DefaultRetryDelay, FALSE, FALSE)

get_admin_user_email_call ==
    Invoke(CmdAuthList, DefaultMaxNumRetries, DefaultRetryDelay, FALSE, TRUE)

delete_key_call_suppressed ==
    Invoke(CmdShred, DefaultMaxNumRetries, DefaultRetryDelay, TRUE, FALSE)

delete_key_call ==
    Invoke(CmdShred, DefaultMaxNumRetries, DefaultRetryDelay, FALSE, FALSE)

----------------------------------------------------------------------------
(* main and the steps it awaits                                            *)

StepOrder ==
    << "create_project", "verify_tos", "enable_apis", "create_service_account",
       "authorize", "create_key", "persist_key", "destroy_key" >>

Begin(step) == << "begin", step >>
End(step) == << "end", step >>

\* main's coroutine awaits the call c.
Await(c) ==
    /\ call' = [call EXCEPT ![MainTask] = c]
    /\ issued' = issued \cup Spawned(c)

\* The awaited call handed main a (stdout, stderr, return_code) triple.
Resumed(at) ==
    /\ proc = "running"
    /\ pc = at
    /\ call[MainTask].pc \in {"ret_success", "ret_suppressed"}

CancelsCaseSensitive(a) == a = << "n" >>

\* answer.lower() == "n"
Cancels(a) == Lower(a) = << "n" >>

\* while APIS and not tos_accepted
TosLoop(accepted) == Len(APIS) > 0 /\ ~accepted

Init ==
    /\ pc = "start"
    /\ call = [t \in Tasks |-> IdleCall]
    /\ proc = "running"
    /\ exit_status = 0
    /\ steps = << >>
    /\ tos_accepted = FALSE
    /\ tos_answer = << >>
    /\ tos_cycles = 0
    /\ auth_answer = << >>
    /\ authorized = "none"
    /\ response = "none"
    /\ project_exists = FALSE
    /\ enabled = { }
    /\ sa_exists = FALSE
    /\ key_file = FALSE
    /\ staged = FALSE
    /\ issued = { }
    /\ delete_calls = 0
    /\ scopes = SCOPES
    /\ service_account_id = << >>
    /\ authorize_url = << >>
    /\ sdk = SdkIdle

\* main: await create_project()
StartMain ==
    /\ proc = "running"
    /\ pc = "start"
    /\ steps' = Append(steps, Begin("create_project"))
    /\ Await(create_project_call)
    /\ pc' = "create_project"
    /\ UNCHANGED <<url, sdk>>
    /\ UNCHANGED <<tos_cycles, proc, exit_status, tos_accepted, tos_answer, auth_answer,
                   authorized, response, env, delete_calls>>

\* create_project returns; verify_tos_accepted runs to its first probe.
CreateProjectDone ==
    /\ Resumed("create_project")
    /\ steps' = steps \o << End("create_project"), Begin("verify_tos") >>
    /\ tos_accepted' = FALSE
    /\ TosLoop(tos_accepted')
    /\ Await(probe_call)
    /\ pc' = "verify_tos"
    /\ tos_cycles' = 1
    /\ UNCHANGED <<url, sdk>>
    /\ UNCHANGED <<proc, exit_status, tos_answer, auth_answer, authorized,
                   response, env, delete_calls>>

\* The probe failed with the terms-of-service marker: print the link, input().
TosBlocked ==
    /\ Resumed("verify_tos")
    /\ call[MainTask].result[3] # 0
    /\ Contains(call[MainTask].result[2], TosMarker)
    /\ pc' = "tos_prompt"
    /\ UNCHANGED <<url, sdk>>
    /\ UNCHANGED <<tos_cycles, call, proc, exit_status, steps, tos_accepted, tos_answer,
                   auth_answer, authorized, response, env, issued, delete_calls>>

\* The probe failed otherwise: logging.critical(err_str); sys.exit(1)
TosFatal ==
    /\ Resumed("verify_tos")
    /\ call[MainTask].result[3] # 0
    /\ ~Contains(call[MainTask].result[2], TosMarker)
    /\ pc' = "tos_fatal"
    /\ SysExit(1)
    /\ UNCHANGED <<url, sdk>>
    /\ UNCHANGED <<tos_cycles, call, steps, tos_accepted, tos_answer, auth_answer, authorized,
                   response, env, issued, delete_calls>>

\* The operator answers "n": sys.exit(0)
TosCancel ==
    /\ proc = "running"
    /\ pc = "tos_prompt"
    /\ \E a \in Answers :
          /\ Cancels(a)
          /\ tos_answer' = << a >>
    /\ pc' = "tos_cancelled"
    /\ SysExit(0)
    /\ UNCHANGED <<url, sdk>>
    /\ UNCHANGED <<tos_cycles, call, steps, tos_accepted, auth_answer, authorized, response,
                   env, issued, delete_calls>>

\* The operator answers anything else: the loop probes again.
TosRetry ==
    /\ proc = "running"
    /\ pc = "tos_prompt"
    /\ \E a \in Answers :
          /\ ~Cancels(a)
          /\ tos_answer' = << a >>
    /\ TosLoop(tos_accepted)
    /\ Await(probe_call)
    /\ pc' = "verify_tos"
    /\ tos_cycles' = IF tos_cycles < MaxTosCycles THEN tos_cycles + 1 ELSE tos_cycles
    /\ UNCHANGED <<url, sdk>>
    /\ UNCHANGED <<proc, exit_status, steps, tos_accepted, auth_answer,
                   authorized, response, env, delete_calls>>

GatherAny == \E t \in ApiTasks : Returned(call[t])

\* await asyncio.gather(*enable_api_calls) has every result.
GatherDone == \A t \in ApiTasks : Returned(call[t])

TosAcceptedReissuesProbe ==
    /\ Resumed("verify_tos")
    /\ call[MainTask].result[3] = 0
    /\ tos_accepted' = TRUE
    /\ tos_answer' = << >>
    /\ steps' = steps \o << End("verify_tos"), Begin("enable_apis") >>
    /\ call' = [t \in Tasks |-> IF t \in ApiTasks THEN enable_api(APIS[t])
                                ELSE call[t]]
    /\ pc' = "enable_apis"
    /\ tos_cycles' = 0
    /\ UNCHANGED <<url, sdk>>
    /\ UNCHANGED <<proc, exit_status, auth_answer, authorized, response, env,
                   issued, delete_calls>>

\* The probe succeeded: verify_tos_accepted returns (its locals are gone);
\* enable_apis maps enable_api over APIS[1:] and awaits the gather.
TosAccepted ==
    /\ Resumed("verify_tos")
    /\ call[MainTask].result[3] = 0
    /\ tos_accepted' = TRUE
    /\ ~TosLoop(tos_accepted')
    /\ tos_answer' = << >>
    /\ steps' = steps \o << End("verify_tos"), Begin("enable_apis") >>
    /\ call' = [t \in Tasks |-> IF t \in ApiTasks THEN enable_api(RemainingApis[t])
                                ELSE call[t]]
    /\ pc' = "enable_apis"
    /\ tos_cycles' = 0
    /\ UNCHANGED <<url, sdk>>
    /\ UNCHANGED <<proc, exit_status, auth_answer, authorized, response, env,
                   issued, delete_calls>>

\* The event loop starts the gathered tasks in the order they were made.
TaskStart(t) ==
    /\ proc = "running"
    /\ call[t].pc = "created"
    /\ \A u \in ApiTasks : u < t => call[u].pc # "created"
    /\ call' = [call EXCEPT ![t] = Enter(call[t])]
    /\ issued' = issued \cup Spawned(call'[t])
    /\ UNCHANGED <<url, sdk>>
    /\ UNCHANGED <<tos_cycles, pc, proc, exit_status, steps, tos_accepted, tos_answer,
                   auth_answer, authorized, response, env, delete_calls>>

\* The gather is done: enable_apis returns; create_service_account runs.
EnableApisDone ==
    /\ proc = "running"
    /\ pc = "enable_apis"
    /\ GatherDone
    /\ steps' = steps \o << End("enable_apis"), Begin("create_service_account") >>
    /\ Await(create_service_account_call)
    /\ pc' = "create_service_account"
    /\ UNCHANGED <<url, sdk>>
    /\ UNCHANGED <<tos_cycles, proc, exit_status, tos_accepted, tos_answer, auth_answer,
                   authorized, response, env, delete_calls>>

\* create_service_account returns; authorize_service_account asks for the id.
CreateServiceAccountDone ==
    /\ Resumed("create_service_account")
    /\ steps' = steps \o << End("create_service_account"), Begin("authorize") >>
    /\ Await(get_service_account_id_call)
    /\ pc' = "authorize_id"
    /\ UNCHANGED <<url, sdk>>
    /\ UNCHANGED <<tos_cycles, proc, exit_status, tos_accepted, tos_answer, auth_answer,
                   authorized, response, env, delete_calls>>

\* get_service_account_id returns; the URL is built and input() waits.
AuthorizeIdReturned ==
    /\ Resumed("authorize_id")
    /\ service_account_id' = RStrip(call[MainTask].result[1])
    /\ authorize_url' = AuthorizeUrl(service_account_id', scopes)
    /\ pc' = "authorize_prompt"
    /\ UNCHANGED <<scopes, sdk>>
    /\ UNCHANGED <<tos_cycles, call, proc, exit_status, steps, tos_accepted, tos_answer,
                   auth_answer, authorized, response, env, issued, delete_calls>>

AuthorizeAnswerAborts ==
    /\ proc = "running"
    /\ pc = "authorize_prompt"
    /\ \E a \in Answers :
          /\ auth_answer' = << a >>
          /\ authorized' = IF Cancels(a) THEN "False" ELSE "True"
          /\ IF Cancels(a)
             THEN /\ pc' = "authorize_cancelled"
                  /\ SysExit(0)
                  /\ UNCHANGED <<steps, call, issued>>
             ELSE /\ steps' = steps \o << End("authorize"), Begin("create_key") >>
                  /\ Await(get_service_account_email_call)
                  /\ pc' = "create_key_email"
                  /\ UNCHANGED <<proc, exit_status>>
    /\ UNCHANGED <<url, sdk>>
    /\ UNCHANGED <<tos_cycles, tos_accepted, tos_answer, response, env, delete_calls>>

\* The operator answers; authorize_service_account returns False on "n" and True
\* otherwise; main drops the value and awaits create_service_account_key.
AuthorizeAnswer ==
    /\ proc = "running"
    /\ pc = "authorize_prompt"
    /\ \E a \in Answers :
          /\ auth_answer' = << a >>
          /\ authorized' = IF Cancels(a) THEN "False" ELSE "True"
    /\ steps' = steps \o << End("authorize"), Begin("create_key") >>
    /\ Await(get_service_account_email_call)
    /\ pc' = "create_key_email"
    /\ UNCHANGED <<url, sdk>>
    /\ UNCHANGED <<tos_cycles, proc, exit_status, tos_accepted, tos_answer, response, env,
                   delete_calls>>

\* get_service_account_email returns; the key is asked for.
KeyEmailReturned ==
    /\ Resumed("create_key_email")
    /\ Await(create_key_call)
    /\ pc' = "create_key"
    /\ UNCHANGED <<url, sdk>>
    /\ UNCHANGED <<tos_cycles, proc, exit_status, steps, tos_accepted, tos_answer,
                   auth_answer, authorized, response, env, delete_calls>>

CreateKeyDoneSkipsPersist ==
    /\ Resumed("create_key")
    /\ steps' = steps \o << End("create_key"), Begin("destroy_key") >>
    /\ Await(delete_key_call)
    /\ pc' = "delete_key"
    /\ delete_calls' = delete_calls + 1
    /\ UNCHANGED <<url, sdk>>
    /\ UNCHANGED <<tos_cycles, proc, exit_status, tos_accepted, tos_answer, auth_answer,
                   authorized, response, env>>

\* create_service_account_key returns; download_service_account_key asks for
\* the admin user's email.
CreateKeyDone ==
    /\ Resumed("create_key")
    /\ steps' = steps \o << End("create_key"), Begin("persist_key") >>
    /\ Await(get_admin_user_email_call)
    /\ pc' = "download_email"
    /\ UNCHANGED <<url, sdk>>
    /\ UNCHANGED <<tos_cycles, proc, exit_status, tos_accepted, tos_answer, auth_answer,
                   authorized, response, env, delete_calls>>

\* (await get_admin_user_email()).split("@")[1]
EmailParts == Split(RStrip(call[MainTask].result[1]), "@")

\* The email has no "@": IndexError, which nothing catches.
DownloadIndexError ==
    /\ Resumed("download_email")
    /\ Len(EmailParts) < 2
    /\ pc' = "uncaught"
    /\ Uncaught
    /\ UNCHANGED <<url, sdk>>
    /\ UNCHANGED <<tos_cycles, call, steps, tos_accepted, tos_answer, auth_answer, authorized,
                   response, env, issued, delete_calls>>

\* The file name is made, KEY_FILE is read, requests.post is under way.
DownloadPosts ==
    /\ Resumed("download_email")
    /\ Len(EmailParts) >= 2
    /\ key_file
    /\ pc' = "download_post"
    /\ UNCHANGED <<url, sdk>>
    /\ UNCHANGED <<tos_cycles, call, proc, exit_status, steps, tos_accepted, tos_answer,
                   auth_answer, authorized, response, env, issued, delete_calls>>

\* requests.post raises (no connection, a timeout): nothing catches it.
DownloadPostRaises ==
    /\ proc = "running"
    /\ pc = "download_post"
    /\ pc' = "uncaught"
    /\ Uncaught
    /\ UNCHANGED <<url, sdk>>
    /\ UNCHANGED <<tos_cycles, call, steps, tos_accepted, tos_answer, auth_answer, authorized,
                   response, env, issued, delete_calls>>

DownloadReturnsChecked ==
    /\ proc = "running"
    /\ pc = "download_post"
    /\ \/ /\ response' = "ack"
          /\ steps' = steps \o << End("persist_key"), Begin("destroy_key") >>
          /\ delete_calls' = delete_calls + 1
          /\ Await(delete_key_call)
          /\ pc' = "delete_key"
          /\ UNCHANGED <<proc, exit_status>>
       \/ /\ response' = "nack"
          /\ pc' = "uncaught"
          /\ Uncaught
          /\ UNCHANGED <<steps, delete_calls, call, issued>>
    /\ UNCHANGED <<url, sdk>>
    /\ UNCHANGED <<tos_cycles, tos_accepted, tos_answer, auth_answer, authorized, env>>

\* requests.post returns a response, an acknowledgement or not; main drops it
\* and awaits delete_key.
DownloadReturns ==
    /\ proc = "running"
    /\ pc = "download_post"
    /\ response' \in {"ack", "nack"}
    /\ steps' = steps \o << End("persist_key"), Begin("destroy_key") >>
    /\ delete_calls' = delete_calls + 1
    /\ Await(delete_key_call)
    /\ pc' = "delete_key"
    /\ UNCHANGED <<url, sdk>>
    /\ UNCHANGED <<tos_cycles, proc, exit_status, tos_accepted, tos_answer, auth_answer,
                   authorized, env>>

\* delete_key returns; logging.info("Done!"), main returns and the process ends.
DeleteKeyDone ==
    /\ Resumed("delete_key")
    /\ steps' = Append(steps, End("destroy_key"))
    /\ pc' = "done"
    /\ SysExit(0)
    /\ UNCHANGED <<url, sdk>>
    /\ UNCHANGED <<tos_cycles, call, tos_accepted, tos_answer, auth_answer, authorized,
                   response, env, issued, delete_calls>>

Next ==
    \/ StartMain
    \/ CreateProjectDone
    \/ TosBlocked
    \/ TosFatal
    \/ TosCancel
    \/ TosRetry
    \/ TosAccepted
    \/ \E t \in ApiTasks : TaskStart(t)
    \/ EnableApisDone
    \/ CreateServiceAccountDone
    \/ AuthorizeIdReturned
    \/ AuthorizeAnswer
    \/ KeyEmailReturned
    \/ CreateKeyDone
    \/ DownloadIndexError
    \/ DownloadPosts
    \/ DownloadPostRaises
    \/ DownloadReturns
    \/ DeleteKeyDone
    \/ \E t \in Tasks : CommandCompletes(t)
    \/ \E t \in Tasks : SleepDone(t)

Spec == Init /\ [][Next]_vars

----------------------------------------------------------------------------
(* Claims about retryable_command, checked under SpecRunner                *)

\* The last completed attempt of frame c met the success condition.
LastAttemptSucceeded(c) ==
    /\ c.return_code = 0
    /\ (~c.require_output \/ Len(c.stdout) > 0)

\* C1: a call with max_attempts >= 1 whose attempts all fail executes the
\* command exactly max_attempts times with max_attempts - 1 sleeps of retry_delay
\* between them, and only then returns the suppressed result or exits; a call
\* that succeeds at attempt k has executed the command k times and no more.
C1_ExactlyMaxAttempts ==
    \A t \in Tasks :
        LET c == call[t] IN
        c.max_num_retries >= 1 =>
            /\ c.pc \in {"ret_suppressed", "sys_exit"} =>
                  /\ c.execs = c.max_num_retries
                  /\ c.sleeps = c.max_num_retries - 1
                  /\ c.slept = (c.max_num_retries - 1) * c.retry_delay
                  /\ ~LastAttemptSucceeded(c)
            /\ c.pc = "sleeping" =>
                  /\ c.execs < c.max_num_retries
                  /\ c.sleeps = c.execs
                  /\ ~LastAttemptSucceeded(c)
            /\ c.pc = "running" =>
                  /\ c.execs <= c.max_num_retries
                  /\ c.sleeps = c.execs - 1
                  /\ (c.execs > 1 => ~LastAttemptSucceeded(c))
            /\ c.pc = "ret_success" =>
                  /\ c.execs = c.num_tries
                  /\ c.execs <= c.max_num_retries
                  /\ c.sleeps = c.execs - 1
                  /\ c.slept = c.sleeps * c.retry_delay

\* Three failed attempts, two sleeps of five seconds, then sys.exit.
C1_Witness ==
    /\ call[MainTask].pc = "sys_exit"
    /\ call[MainTask].max_num_retries = 3
    /\ call[MainTask].execs = 3
    /\ call[MainTask].slept = 10

\* C2: an attempt is a success, returned at once, exactly when its exit status
\* is zero and (require_output is false or stdout is not empty); any other
\* outcome, exit status zero with empty stdout under require_output included,
\* goes to the retry, the suppressed return or the exit.
C2_SuccessIffZeroAndOutput ==
    \A t \in Tasks :
        LET c == call[t] IN
        c.return_code # Unset =>
            /\ c.pc = "ret_success" <=>
                  (c.return_code = 0 /\ (~c.require_output \/ c.stdout # << >>))
            /\ c.pc = "ret_success" =>
                  c.result = << c.stdout, c.stderr, c.return_code >>
            /\ c.pc # "ret_success" =>
                  c.pc \in {"sleeping", "running", "ret_suppressed", "sys_exit"}

\* Exit status zero, nothing on stdout, output required: the attempt failed.
C2_Witness ==
    /\ call[MainTask].pc = "sleeping"
    /\ call[MainTask].require_output
    /\ call[MainTask].return_code = 0
    /\ call[MainTask].stdout = << >>

\* C3: out of attempts, a call with suppress_errors returns the last attempt's
\* (stdout, stderr, exit status) and the process runs on; a call without it ends
\* the process with the last attempt's exit status and returns nothing.
C3_ExhaustedSuppressedOrFatal ==
    LET c == call[MainTask] IN
    /\ c.pc = "ret_suppressed" =>
          /\ c.suppress_errors
          /\ c.execs = c.max_num_retries
          /\ ~LastAttemptSucceeded(c)
          /\ c.result = << c.stdout, c.stderr, c.return_code >>
          /\ proc = "running"
    /\ c.pc = "sys_exit" =>
          /\ ~c.suppress_errors
          /\ c.execs = c.max_num_retries
          /\ ~LastAttemptSucceeded(c)
          /\ c.result = << >>
          /\ proc = "exited"
          /\ exit_status = c.return_code
    /\ proc = "exited" <=> c.pc = "sys_exit"
    /\ (c.suppress_errors /\ c.return_code # Unset /\ ~LastAttemptSucceeded(c)
          /\ c.execs = c.max_num_retries /\ c.pc # "running") =>
          c.pc = "ret_suppressed"

\* The last attempt exits with 2 and the process exits with 2.
C3_Witness ==
    /\ call[MainTask].pc = "sys_exit"
    /\ call[MainTask].return_code = 2
    /\ exit_status = 2
    /\ call[MainTask].execs > 1

----------------------------------------------------------------------------
(* Claims about the pipeline, checked under Spec                           *)

AllApis == { APIS[i] : i \in 1 .. Len(APIS) }

Began(step) == \E i \in 1 .. Len(steps) : steps[i] = Begin(step)
Ended(step) == \E i \in 1 .. Len(steps) : steps[i] = End(step)

\* begin, end of the first step, begin, end of the second, and so on.
StepsInOrder ==
    [i \in 1 .. 2 * Len(StepOrder) |->
        IF i % 2 = 1 THEN Begin(StepOrder[(i + 1) \div 2]) ELSE End(StepOrder[i \div 2])]

\* C4: main runs its eight steps in the fixed order, each begun only when the
\* one before it has ended (and has done its work), none skipped or run twice,
\* and reports Done only when all eight have ended.
C4_StepsInFixedOrder ==
    /\ Len(steps) <= Len(StepsInOrder)
    /\ steps = SubSeq(StepsInOrder, 1, Len(steps))
    /\ pc = "done" => steps = StepsInOrder
    /\ Began("verify_tos") => project_exists
    /\ Began("enable_apis") => APIS[1] \in enabled
    /\ Began("create_service_account") => enabled = AllApis
    /\ Began("authorize") => sa_exists
    /\ Began("create_key") => authorized # "none"
    /\ Began("persist_key") => staged
    /\ Began("destroy_key") => response # "none"
    /\ Ended("destroy_key") => ~key_file

\* A run that got to Done.
C4_Witness ==
    /\ pc = "done"
    /\ Len(steps) = 16

\* C5: once the key file is staged, delete_key is entered exactly once on every
\* way out of the pipeline, also when the persistence step fails or the process
\* aborts after the staging.
C5_DestroyOncePerStage ==
    (staged /\ proc = "exited") => delete_calls = 1

\* C6: when Done is reported the staged key file is gone: delete_key's shred
\* exited with status zero and KEY_FILE does not exist.
C6_KeyDestroyedBeforeDone ==
    pc = "done" =>
        /\ staged
        /\ ~key_file
        /\ call[MainTask].command = CmdShred
        /\ call[MainTask].return_code = 0

\* Done, after a shred that had to be retried.
C6_Witness ==
    /\ pc = "done"
    /\ call[MainTask].command = CmdShred
    /\ call[MainTask].num_tries > 1

\* C7: enable_apis ends only when every enable call it dispatched has
\* completed; none is outstanding when it reports the APIs enabled.
C7_EnableApisWaitsForAll ==
    Ended("enable_apis") =>
        \A t \in ApiTasks :
            /\ call[t].pc \in {"ret_success", "ret_suppressed", "ret_none"}
            /\ call[t].pc \notin {"created", "running", "sleeping"}
            /\ call[t].command = CmdServicesEnable(RemainingApis[t])

\* enable_apis has ended, one of its calls having needed all three attempts.
C7_Witness ==
    /\ Ended("enable_apis")
    /\ \E t \in ApiTasks : call[t].num_tries = 3
    /\ \E t \in ApiTasks : call[t].num_tries = 1

\* C8: enabling is all or nothing: an enable call out of attempts ends the
\* process and create_service_account never begins; when it begins, every API of
\* the list, the probe's included, has had an enable command exit with zero.
C8_AllOrNothing ==
    /\ \A t \in ApiTasks :
          LET c == call[t] IN
          (c.return_code # Unset /\ c.return_code # 0
              /\ c.execs = c.max_num_retries /\ c.pc \notin {"running", "sleeping"}) =>
              /\ c.pc = "sys_exit"
              /\ proc = "exited"
              /\ exit_status = c.return_code
              /\ ~Began("create_service_account")
    /\ Began("create_service_account") =>
          /\ enabled = AllApis
          /\ \A t \in ApiTasks : call[t].return_code = 0

\* The third attempt of an enable call fails while a sibling is still at work.
C8_Witness ==
    \E t, u \in ApiTasks :
        /\ call[t].pc = "sys_exit"
        /\ call[t].execs = 3
        /\ call[u].pc \in {"running", "sleeping"}

\* C9: an operator answering n or N at the terms-of-service prompt ends the
\* process with status 0; nothing but the project creation and the probe has
\* been or will be issued, and the project stays.
C9_TosCancelExitsZero ==
    /\ (tos_answer # << >> /\ Lower(tos_answer[1]) = << "n" >>) =>
          /\ pc = "tos_cancelled"
          /\ proc = "exited"
          /\ exit_status = 0
          /\ issued = { CmdProjectsCreate, CmdServicesEnable(APIS[1]) }
          /\ steps = << Begin("create_project"), End("create_project"),
                        Begin("verify_tos") >>
          /\ project_exists
          /\ enabled = { }
          /\ ~sa_exists
          /\ ~staged
    /\ pc = "tos_cancelled" => (tos_answer # << >> /\ Lower(tos_answer[1]) = << "n" >>)

\* The operator typed a capital N.
C9_Witness ==
    /\ pc = "tos_cancelled"
    /\ tos_answer = << << "N" >> >>
    /\ project_exists

\* C10: a probe that fails without the terms-of-service marker in stderr ends
\* the process with the probe command's exit status.
C10_TosFatalExitsWithProbeStatus ==
    pc = "tos_fatal" =>
        /\ proc = "exited"
        /\ exit_status = call[MainTask].return_code

\* The probe of the terms-of-service loop, as it is when just issued.
FreshProbe(c) ==
    /\ c.command = CmdServicesEnable(APIS[1])
    /\ c.pc = "running"
    /\ c.execs = 1
    /\ c.max_num_retries = 1
    /\ c.return_code = Unset

\* C11: the terms-of-service loop has no limit of its own: after a probe that
\* failed with the marker, any input but n/N issues the same probe again, one
\* attempt a cycle, however many cycles went before; the loop is left only by a
\* probe that succeeded (on to enable_apis), by n/N (exit) or by a failure
\* without the marker (exit), and a probe that succeeded always leaves it.
C11_TosLoopUnbounded ==
    [][ /\ (pc = "verify_tos" /\ pc' # pc) =>
              LET r == call[MainTask].result IN
              /\ call[MainTask].execs = 1
              /\ \/ r[3] = 0 /\ pc' = "enable_apis" /\ tos_accepted'
                 \/ r[3] # 0 /\ Contains(r[2], TosMarker) /\ pc' = "tos_prompt"
                             /\ proc' = "running"
                 \/ r[3] # 0 /\ ~Contains(r[2], TosMarker) /\ pc' = "tos_fatal"
                             /\ proc' = "exited"
        /\ (pc = "tos_prompt" /\ pc' # pc) =>
              \/ /\ Lower(tos_answer'[1]) = << "n" >>
                 /\ pc' = "tos_cancelled"
                 /\ proc' = "exited"
              \/ /\ Lower(tos_answer'[1]) # << "n" >>
                 /\ pc' = "verify_tos"
                 /\ proc' = "running"
                 /\ FreshProbe(call'[MainTask])
                 /\ tos_cycles' = IF tos_cycles < MaxTosCycles THEN tos_cycles + 1
                                  ELSE tos_cycles
        /\ (pc' = "verify_tos") =>
              /\ call'[MainTask].command = CmdServicesEnable(APIS[1])
              /\ call'[MainTask].execs = 1
              /\ call'[MainTask].pc \in {"running", "ret_success", "ret_suppressed"}
      ]_vars

\* The loop is in its third cycle and the operator has just pressed Enter.
C11_Witness ==
    /\ pc = "verify_tos"
    /\ tos_cycles >= 3
    /\ tos_answer = << << >> >>
    /\ call[MainTask].pc = "running"

\* Frame c has failed its last attempt, the resource being there already.
FailedAsExisting(c, command) ==
    /\ c.command = command
    /\ c.execs = c.max_num_retries
    /\ c.return_code \notin {Unset, 0}
    /\ Contains(c.stderr, AlreadyExists)
    /\ c.pc \notin {"running", "sleeping"}

\* C12: when the create-project command fails on every attempt because the
\* project exists already, the pipeline takes the existing project and goes on
\* to the terms-of-service step; the process is not ended.
C12_ExistingProjectProceeds ==
    FailedAsExisting(call[MainTask], CmdProjectsCreate) =>
        /\ proc = "running"
        /\ call[MainTask].pc # "sys_exit"

\* C13: when the create-service-account command fails on every attempt because
\* the account exists already, the step falls back to the existing account and
\* the pipeline goes on to the authorization; the failure does not end the
\* process.
C13_ExistingAccountProceeds ==
    FailedAsExisting(call[MainTask], CmdServiceAccountsCreate) =>
        /\ proc = "running"
        /\ call[MainTask].pc # "sys_exit"

\* C14: at the authorization prompt an answer of n or N makes
\* authorize_service_account return False, any other answer True; it neither
\* raises nor ends the process, and main has the value in hand.
C14_AuthorizeReturnsSignal ==
    /\ pc \in {"authorize_id", "authorize_prompt"} =>
          /\ authorized = "none"
          /\ auth_answer = << >>
    /\ pc = "authorize_prompt" => proc = "running"
    /\ auth_answer # << >> =>
          /\ authorized = IF Lower(auth_answer[1]) = << "n" >> THEN "False" ELSE "True"
          /\ Ended("authorize")
          /\ pc \notin {"authorize_id", "authorize_prompt"}
    /\ authorized # "none" => auth_answer # << >>
    /\ (pc = "create_key_email" /\ call[MainTask].return_code = Unset) =>
          proc = "running"

\* The operator typed a capital N: False is returned and the process runs.
C14_Witness ==
    /\ auth_answer = << << "N" >> >>
    /\ authorized = "False"
    /\ pc = "create_key_email"
    /\ proc = "running"

\* The tasks of the fan-out whose command enables api.
Fanned(api) ==
    { t \in DOMAIN call \ { MainTask } : call[t].command = CmdServicesEnable(api) }

\* C16: no enable command of a remaining API (APIS[1:]) is issued, and no
\* task of the fan-out exists, before the probe of the first API has succeeded;
\* after it, each remaining API is the command of exactly one task, no task has
\* the probe's API, the probe is not running again, and a task keeps its command.
C16_FanOutAfterProbe ==
    /\ [](/\ \A i \in 1 .. Len(Tail(APIS)) :
                 CmdServicesEnable(Tail(APIS)[i]) \in issued =>
                    tos_accepted /\ APIS[1] \in enabled /\ Began("enable_apis")
          /\ \A t \in DOMAIN call \ { MainTask } :
                 call[t].pc # "idle" => tos_accepted
          /\ tos_accepted =>
                /\ \A i \in 1 .. Len(Tail(APIS)) :
                       Cardinality(Fanned(Tail(APIS)[i])) = 1
                /\ Fanned(APIS[1]) = { }
                /\ Cardinality(DOMAIN call \ { MainTask }) = Len(Tail(APIS))
                /\ call[MainTask].command = CmdServicesEnable(APIS[1]) =>
                      call[MainTask].pc \notin { "running", "sleeping" })
    /\ [][\A t \in DOMAIN call \ { MainTask } :
              call[t].command # NoCommand => call'[t].command = call[t].command]_vars

\* Every remaining API's enable command has been issued, one of them more than
\* once by its own task's retry, and the fan-out has returned.
C16_Witness ==
    /\ pc = "create_service_account"
    /\ \A i \in 1 .. Len(Tail(APIS)) : CmdServicesEnable(Tail(APIS)[i]) \in issued
    /\ \E t \in ApiTasks : call[t].execs = 2

\* C17: in the fan-out every task has been started before any task's command
\* completes, sleeps or is retried; a step of one task leaves every other task's
\* frame as it is; each task counts its own attempts, one at a time, and ends
\* the process only after max_num_retries executions of its own.
C17_FanOutIndependent ==
    /\ []((\E t \in ApiTasks : call[t].pc \notin { "idle", "created", "running" }
                                 \/ call[t].num_tries > 1
                                 \/ call[t].return_code # Unset)
             => \A u \in ApiTasks : call[u].pc # "created")
    /\ [](\A t \in ApiTasks :
             /\ call[t].execs <= call[t].max_num_retries
             /\ call[t].pc = "sys_exit" => call[t].execs = call[t].max_num_retries
             /\ call[t].pc = "running" => call[t].execs = call[t].num_tries
             /\ call[t].pc = "sleeping" => call[t].execs = call[t].num_tries - 1
             /\ call[t].pc = "created" => call[t].execs = 0)
    /\ [][\A t \in ApiTasks :
              (call[t].pc # "idle" /\ call'[t] # call[t]) =>
                 /\ \A u \in ApiTasks \ { t } : call'[u] = call[u]
                 /\ call'[t].num_tries \in { call[t].num_tries, call[t].num_tries + 1 }
                 /\ call'[t].execs \in { call[t].execs, call[t].execs + 1 }]_vars

\* One task sleeps before its second attempt, a second has returned at its
\* first, a third runs its last attempt.
C17_Witness ==
    /\ pc = "enable_apis"
    /\ \E t, u, v \in ApiTasks :
          /\ call[t].pc = "sleeping" /\ call[t].num_tries = 2
          /\ call[u].pc = "ret_success" /\ call[u].execs = 1
          /\ call[v].pc = "running" /\ call[v].execs = call[v].max_num_retries

\* C18: whatever response the delivery returned, delete_key has been awaited,
\* once; after a response that is no acknowledgement the process ends only at
\* "Done" with status 0 and the key file gone, or in delete_key's own fatal
\* failure; and when delete_key has returned, the next step is "Done".
C18_DeliveryFailureIgnored ==
    /\ [](response \in { "ack", "nack" } =>
             /\ Began("destroy_key")
             /\ delete_calls = 1
             /\ pc \in { "delete_key", "done" }
             /\ call[MainTask].command = CmdShred)
    /\ []((response = "nack" /\ proc = "exited") =>
             \/ pc = "done" /\ exit_status = 0 /\ ~key_file /\ Ended("destroy_key")
             \/ pc = "delete_key" /\ call[MainTask].pc = "sys_exit")
    /\ [][(response = "nack" /\ pc = "delete_key" /\ call[MainTask].pc = "ret_success")
             => (pc' = "done" /\ exit_status' = 0)]_vars

\* "Done" after a delivery that was not acknowledged.
C18_Witness ==
    /\ pc = "done"
    /\ response = "nack"
    /\ exit_status = 0
    /\ ~key_file

\* C19: once authorize_service_account has returned False, the key step has
\* begun; the process then ends only at "Done", with the key created, persisted
\* and destroyed, or in a later step's own failure; and the step the prompt's
\* answer takes, whatever the answer, is to await the key step's first command.
C19_AuthorizationResultIgnored ==
    /\ [](authorized = "False" =>
             /\ Ended("authorize")
             /\ Began("create_key")
             /\ pc \in { "create_key_email", "create_key", "download_email",
                         "download_post", "delete_key", "done", "uncaught" })
    /\ []((authorized = "False" /\ proc = "exited") =>
             \/ /\ pc = "done"
                /\ exit_status = 0
                /\ staged
                /\ Ended("create_key") /\ Ended("persist_key") /\ Ended("destroy_key")
             \/ call[MainTask].pc = "sys_exit"
             \/ pc = "uncaught")
    /\ [][pc = "authorize_prompt" /\ pc' # pc =>
             /\ pc' = "create_key_email"
             /\ proc' = "running"
             /\ call'[MainTask].command = CmdListEmail
             /\ call'[MainTask].pc = "running"]_vars

\* "Done" after the operator answered "n" at the authorization prompt.
C19_Witness ==
    /\ pc = "done"
    /\ authorized = "False"
    /\ auth_answer = << << "n" >> >>
    /\ staged
    /\ exit_status = 0

\* C20: in a call with require_output set and suppress_errors unset, an attempt
\* that exits with status zero and empty stdout is followed by a retry while
\* num_tries < max_num_retries and by the end of the process otherwise; the
\* process then has exit status 0, after max_num_retries executions.
C20_FatalWithStatusZero ==
    /\ []((/\ call[MainTask].require_output
            /\ ~call[MainTask].suppress_errors
            /\ call[MainTask].pc = "sys_exit"
            /\ call[MainTask].return_code = 0) =>
             /\ call[MainTask].stdout = << >>
             /\ proc = "exited"
             /\ exit_status = 0
             /\ call[MainTask].execs = call[MainTask].max_num_retries)
    /\ [][(/\ call[MainTask].pc = "running"
            /\ call'[MainTask] # call[MainTask]
            /\ call[MainTask].require_output
            /\ ~call[MainTask].suppress_errors
            /\ call'[MainTask].return_code = 0
            /\ call'[MainTask].stdout = << >>) =>
             IF call[MainTask].num_tries < call[MainTask].max_num_retries
             THEN /\ call'[MainTask].pc = "sleeping"
                  /\ call'[MainTask].num_tries = call[MainTask].num_tries + 1
                  /\ proc' = "running"
             ELSE /\ call'[MainTask].pc = "sys_exit"
                  /\ proc' = "exited"
                  /\ exit_status' = 0]_vars

\* Every attempt of a call that requires output exited with status zero and no
\* output; the process has ended with status 0 after the last of them.
C20_Witness ==
    /\ call[MainTask].require_output
    /\ ~call[MainTask].suppress_errors
    /\ call[MainTask].pc = "sys_exit"
    /\ call[MainTask].return_code = 0
    /\ call[MainTask].stdout = << >>
    /\ call[MainTask].execs = DefaultMaxNumRetries
    /\ call[MainTask].sleeps = DefaultMaxNumRetries - 1
    /\ proc = "exited"
    /\ exit_status = 0

\* C21: in a call with max_num_retries >= 1 the attempt counter stays within
\* 1 .. max_num_retries and grows only by one, in the step after an attempt that
\* failed; a call that is neither running nor sleeping has either returned the
\* (stdout, stderr, return_code) triple of its last attempt, the process running
\* on, or ended the process, never both; with max_num_retries <= 0 nothing is
\* executed and the call returns no result; and every call ends.
C21_CounterAndEndings ==
    /\ [](call[MainTask].max_num_retries >= 1 =>
             /\ 1 <= call[MainTask].num_tries
             /\ call[MainTask].num_tries <= call[MainTask].max_num_retries
             /\ call[MainTask].execs >= 1
             /\ call[MainTask].pc \in { "running", "sleeping" }
                \/ /\ call[MainTask].pc \in { "ret_success", "ret_suppressed" }
                   /\ call[MainTask].result = << call[MainTask].stdout, call[MainTask].stderr,
                                                 call[MainTask].return_code >>
                   /\ call[MainTask].return_code \in 0 .. 255
                   /\ proc = "running"
                \/ /\ call[MainTask].pc = "sys_exit"
                   /\ call[MainTask].result = << >>
                   /\ proc = "exited")
    /\ [](call[MainTask].max_num_retries <= 0 =>
             /\ call[MainTask].pc = "ret_none"
             /\ call[MainTask].execs = 0
             /\ call[MainTask].result = << >>
             /\ call[MainTask].return_code = Unset
             /\ issued = { }
             /\ proc = "running")
    /\ [][/\ call'[MainTask].num_tries \in { call[MainTask].num_tries,
                                             call[MainTask].num_tries + 1 }
          /\ call'[MainTask].num_tries = call[MainTask].num_tries + 1 =>
                /\ call[MainTask].pc = "running"
                /\ call'[MainTask].pc = "sleeping"
                /\ \/ call'[MainTask].return_code # 0
                   \/ call[MainTask].require_output /\ call'[MainTask].stdout = << >>]_vars
    /\ <>(call[MainTask].pc \notin { "running", "sleeping" })

\* The counter has reached max_num_retries, one step at a time, and the call
\* has returned the failing triple of its last attempt.
C21_Witness ==
    /\ call[MainTask].max_num_retries = DefaultMaxNumRetries
    /\ call[MainTask].num_tries = DefaultMaxNumRetries
    /\ call[MainTask].sleeps = DefaultMaxNumRetries - 1
    /\ call[MainTask].pc = "ret_suppressed"
    /\ call[MainTask].return_code # 0
    /\ proc = "running"

----------------------------------------------------------------------------
(* The delegation URL alone: any scope list, any id                        *)

SeqsUpTo(S, n) == UNION { [1 .. k -> S] : k \in 0 .. n }

\* The characters the drawn scopes are made of: one that is always safe and
\* three that are not.
ScopeChars == { "a", "/", ",", "%" }

ScopeLists == SeqsUpTo(SeqsUpTo(ScopeChars, MaxScopeLen), MaxScopes) \cup { SCOPES }

UniqueIds == { << "7" >>, << "1", "0", "7" >> }

InitUrl ==
    /\ pc = "url_start"
    /\ scopes \in ScopeLists
    /\ service_account_id \in UniqueIds
    /\ authorize_url = << >>
    /\ sdk = SdkIdle
    /\ call = [t \in Tasks |-> IdleCall]
    /\ proc = "running"
    /\ exit_status = 0
    /\ steps = << >>
    /\ tos_accepted = FALSE
    /\ tos_answer = << >>
    /\ tos_cycles = 0
    /\ auth_answer = << >>
    /\ authorized = "none"
    /\ response = "none"
    /\ project_exists = FALSE
    /\ enabled = { }
    /\ sa_exists = FALSE
    /\ key_file = FALSE
    /\ staged = FALSE
    /\ issued = { }
    /\ delete_calls = 0

\* create_auth_url(service_account_unique_id); the same two lines build the
\* URL in authorize_service_account.
create_auth_url ==
    /\ pc = "url_start"
    /\ authorize_url' = AuthorizeUrl(service_account_id, scopes)
    /\ pc' = "url_built"
    /\ UNCHANGED <<call, proc, exit_status, steps, tos_accepted, tos_answer,
                   tos_cycles, auth_answer, authorized, response, env, issued,
                   delete_calls, scopes, service_account_id, sdk>>

NextUrl == create_auth_url

SpecUrl == InitUrl /\ [][NextUrl]_vars

IsHex(ch) == \E i \in 1 .. Len(HexDigits) : HexDigits[i] = ch

HexVal(ch) == (CHOOSE i \in 1 .. Len(HexDigits) : HexDigits[i] = ch) - 1

\* The character of a code; a code of no character of this model stays apart.
Chr(n) ==
    LET known == Letters \cup Digits
                 \cup { "_", ".", "-", "~", ":", "/", ",", "&", "=", "%", "?", "+", " ", "@", "#" }
    IN  IF \E ch \in known : Ord(ch) = n
        THEN CHOOSE ch \in known : Ord(ch) = n
        ELSE "other"

\* Percent-decoding: "%XX" is the character of code XX, anything else is
\* itself.  The two characters after a "%" that begins an escape are hex digits,
\* so no escape begins inside another.
Unquote(s) ==
    LET escape(i) == s[i] = "%" /\ i + 2 <= Len(s) /\ IsHex(s[i + 1]) /\ IsHex(s[i + 2])
        inside(i) == (i > 1 /\ escape(i - 1)) \/ (i > 2 /\ escape(i - 2))
        kept == SelectSeq(Indices(s), LAMBDA i : ~inside(i))
    IN  [k \in 1 .. Len(kept) |->
            IF escape(kept[k])
            THEN Chr(16 * HexVal(s[kept[k] + 1]) + HexVal(s[kept[k] + 2]))
            ELSE s[kept[k]]]

\* The values of the query parameter called name: the query is what follows
\* the first "?", its parameters are parted by "&", name and value by "=".
QueryValues(u, name) ==
    LET query == Split(u, "?")
        params == IF Len(query) < 2 THEN << >> ELSE Split(Join(Tail(query), "?"), "&")
        pairs == [i \in 1 .. Len(params) |-> Split(params[i], "=")]
    IN  { Join(Tail(pairs[i]), "=") : i \in { j \in 1 .. Len(params) : pairs[j][1] = << name >> } }

\* C15: for every scope list, the URL has one clientScopeToAdd parameter, whose
\* percent-decoding is the scope list joined with ","; the joined string is
\* encoded as one unit, no character of it left as it is but the always safe
\* ones, so none can part the parameter or the list.
C15_ScopeParameterRoundTrip ==
    pc = "url_built" =>
        LET joined == Join(scopes, ",")
            values == QueryValues(authorize_url, "clientScopeToAdd")
        IN  /\ Cardinality(values) = 1
            /\ \A v \in values :
                  /\ Unquote(v) = joined
                  /\ \A i \in 1 .. Len(v) :
                        v[i] \notin { ",", "&", "=", "/", ":", "?", "#", "+", " ", "@" }
            /\ QueryValues(authorize_url, "clientIdToAdd") = { service_account_id }

\* The URL of a list of two scopes, one a slash and one a percent sign.
C15_Witness ==
    /\ pc = "url_built"
    /\ scopes = << << "/" >>, << "%" >> >>
    /\ authorize_url # << >>

\* The pipeline's own URL, of the configured SCOPES.
C15_PipelineUrl ==
    pc = "authorize_prompt" =>
        \A v \in QueryValues(authorize_url, "clientScopeToAdd") :
            Unquote(v) = Join(SCOPES, ",")

----------------------------------------------------------------------------
(* new.py: the same pipeline through the client libraries                  *)

\* configs["APIS"]: enable_apis goes through all of them, the first included.
SdkApis ==
    << "admin.googleapis.com", "contacts.googleapis.com", "drive.googleapis.com",
       "gmail.googleapis.com", "serviceusage.googleapis.com", "iam.googleapis.com" >>

\* configs["SCOPES"]: new.py's own list has scopes of the same form as
\* trial.py's; lists of that form stand for it here.
SdkScopeLists == { SCOPES, << << "openid" >> >> }

\* main returns value (the URL, or "False" from its except clause) and the
\* script ends.
SdkMainReturns(record, value) ==
    /\ sdk' = [record EXCEPT !.result = value]
    /\ pc' = "sdk_done"
    /\ proc' = "exited"
    /\ exit_status' = 0

InitSdk ==
    /\ pc = "sdk_create_project"
    /\ project_exists \in BOOLEAN
    /\ sa_exists \in BOOLEAN
    /\ sa_exists => project_exists
    /\ scopes \in SdkScopeLists
    /\ sdk = SdkIdle
    /\ enabled = { }
    /\ service_account_id = << >>
    /\ authorize_url = << >>
    /\ call = [t \in Tasks |-> IdleCall]
    /\ proc = "running"
    /\ exit_status = 0
    /\ steps = << >>
    /\ tos_accepted = FALSE
    /\ tos_answer = << >>
    /\ tos_cycles = 0
    /\ auth_answer = << >>
    /\ authorized = "none"
    /\ response = "none"
    /\ key_file = FALSE
    /\ staged = FALSE
    /\ issued = { }
    /\ delete_calls = 0

\* create_project: the create request, and get_project when it raised; an
\* exception of get_project reaches main's except clause.
SdkCreateProject ==
    /\ proc = "running"
    /\ pc = "sdk_create_project"
    /\ \/ /\ ~project_exists
          /\ project_exists' = TRUE
          /\ pc' = "sdk_enable_client"
          /\ UNCHANGED <<sdk, proc, exit_status>>
       \/ /\ project_exists
          /\ pc' = "sdk_enable_client"
          /\ UNCHANGED <<sdk, proc, exit_status, project_exists>>
       \/ /\ SdkMainReturns(sdk, "False")
          /\ UNCHANGED project_exists
    /\ UNCHANGED url
    /\ UNCHANGED <<call, steps, tos_accepted, tos_answer, tos_cycles, auth_answer,
                   authorized, response, enabled, sa_exists, key_file, staged,
                   issued, delete_calls>>

\* enable_apis: ServiceUsageClient() is made outside the try block.
SdkMakeClient ==
    /\ proc = "running"
    /\ pc = "sdk_enable_client"
    /\ \/ /\ pc' = "sdk_enable_apis"
          /\ UNCHANGED <<sdk, proc, exit_status>>
       \/ SdkMainReturns(sdk, "False")
    /\ UNCHANGED url
    /\ UNCHANGED <<call, steps, tos_accepted, tos_answer, tos_cycles, auth_answer,
                   authorized, response, env, issued, delete_calls>>

SdkEnableApiPropagates ==
    /\ proc = "running"
    /\ pc = "sdk_enable_apis"
    /\ Len(sdk.attempted) < Len(SdkApis)
    /\ LET api == SdkApis[Len(sdk.attempted) + 1]
           asked == [sdk EXCEPT !.attempted = Append(@, api)]
       IN  \/ /\ enabled' = enabled \cup { api }
              /\ IF Len(asked.attempted) < Len(SdkApis)
                 THEN /\ sdk' = asked
                      /\ UNCHANGED pc
                 ELSE /\ sdk' = [asked EXCEPT !.returned = "True"]
                      /\ pc' = "sdk_create_service_account"
              /\ UNCHANGED <<proc, exit_status>>
           \/ /\ UNCHANGED enabled
              /\ SdkMainReturns(asked, "False")
    /\ UNCHANGED url
    /\ UNCHANGED <<call, steps, tos_accepted, tos_answer, tos_cycles, auth_answer,
                   authorized, response, project_exists, sa_exists, key_file,
                   staged, issued, delete_calls>>

\* enable_apis: one pass of the for loop, enable_service and operation.result().
\* After the last API, or when either call raised (the except clause prints the
\* exception), enable_apis returns "True" and main calls create_service_account.
SdkEnableApi ==
    /\ proc = "running"
    /\ pc = "sdk_enable_apis"
    /\ Len(sdk.attempted) < Len(SdkApis)
    /\ LET api == SdkApis[Len(sdk.attempted) + 1]
           asked == [sdk EXCEPT !.attempted = Append(@, api)]
       IN  \/ /\ enabled' = enabled \cup { api }
              /\ IF Len(asked.attempted) < Len(SdkApis)
                 THEN /\ sdk' = asked
                      /\ UNCHANGED pc
                 ELSE /\ sdk' = [asked EXCEPT !.returned = "True"]
                      /\ pc' = "sdk_create_service_account"
           \/ /\ UNCHANGED enabled
              /\ sdk' = [asked EXCEPT !.returned = "True"]
              /\ pc' = "sdk_create_service_account"
    /\ UNCHANGED url
    /\ UNCHANGED <<call, proc, exit_status, steps, tos_accepted, tos_answer, tos_cycles,
                   auth_answer, authorized, response, project_exists, sa_exists,
                   key_file, staged, issued, delete_calls>>

\* create_service_account: the create request, and the get request when it
\* raised HttpError; then create_auth_url, and main returns the URL.  Any other
\* exception reaches main's except clause.
SdkCreateServiceAccount ==
    /\ proc = "running"
    /\ pc = "sdk_create_service_account"
    /\ \/ /\ \/ ~sa_exists /\ sa_exists' = TRUE
             \/ sa_exists /\ UNCHANGED sa_exists
          /\ \E id \in UniqueIds :
                /\ service_account_id' = id
                /\ authorize_url' = AuthorizeUrl(id, scopes)
          /\ SdkMainReturns(sdk, "url")
       \/ /\ SdkMainReturns(sdk, "False")
          /\ UNCHANGED <<sa_exists, service_account_id, authorize_url>>
    /\ UNCHANGED <<call, steps, tos_accepted, tos_answer, tos_cycles, auth_answer,
                   authorized, response, project_exists, enabled, key_file, staged,
                   issued, delete_calls, scopes>>

NextSdk ==
    \/ SdkCreateProject
    \/ SdkMakeClient
    \/ SdkEnableApi
    \/ SdkCreateServiceAccount

SpecSdk == InitSdk /\ [][NextSdk]_vars

\* C22: the APIs enable_apis has requested are a beginning of the configured
\* list, in its order, and every one but the last requested is enabled; once
\* main stands at create_service_account, enable_apis has returned "True" and
\* either requested all of them or stopped at the one that failed; nothing is
\* requested after the return; and every step out of the loop, after a failure
\* too, goes on to create_service_account with the process running.
C22_SdkEnableStopsAndReportsSuccess ==
    /\ [](/\ Len(sdk.attempted) <= Len(SdkApis)
          /\ \A i \in 1 .. Len(sdk.attempted) : sdk.attempted[i] = SdkApis[i]
          /\ \A i \in 1 .. Len(sdk.attempted) - 1 : sdk.attempted[i] \in enabled
          /\ enabled \subseteq { sdk.attempted[i] : i \in 1 .. Len(sdk.attempted) })
    /\ []((pc = "sdk_create_service_account" \/ sdk.result = "url") =>
             /\ sdk.returned = "True"
             /\ Len(sdk.attempted) >= 1
             /\ \/ Len(sdk.attempted) = Len(SdkApis)
                \/ sdk.attempted[Len(sdk.attempted)] \notin enabled)
    /\ [][/\ sdk.returned = "True" =>
                (sdk'.attempted = sdk.attempted /\ enabled' = enabled
                 /\ sdk'.returned = "True")
          /\ (pc = "sdk_enable_apis" /\ pc' # pc) =>
                /\ pc' = "sdk_create_service_account"
                /\ sdk'.returned = "True"
                /\ sdk'.result = "none"
                /\ proc' = "running"]_vars

\* main has returned the URL although the second API failed to enable and the
\* four after it were never requested.
C22_Witness ==
    /\ pc = "sdk_done"
    /\ sdk.result = "url"
    /\ sdk.returned = "True"
    /\ sdk.attempted = << SdkApis[1], SdkApis[2] >>
    /\ enabled = { SdkApis[1] }
    /\ sa_exists

====
